---- MODULE Spec2Model ----
(***************************************************************************)
(* Model of ga4gh/datamodel/genotype_phenotype.py:                         *)
(*   - LiteromeDataset: the single-slot cache of the remote-service        *)
(*     resolver, its pagination and its result mapper;                     *)
(*   - G2PDataset: the graph-backed resolver (formatQuery, the search      *)
(*     query, the detail query, flatten, toGA4GH, namespaceSplit).         *)
(* Python values are modelled as follows: an optional string is a record   *)
(* [kind, s] (kind "None" or "str"); an optional integer is a sequence of  *)
(* length 0 (None) or 1; a list is a sequence; an exception is the name    *)
(* of its class in the `outcome` field of the call record.                 *)
(***************************************************************************)
EXTENDS Integers, Sequences, FiniteSets, TLC

VARIABLES
    \* LiteromeDataset instance (src lines 354-358, 364)
    feature, phenotype, response, responseLen, litAssociationsLength,
    cachedFor,      \* history: the key whose fetch produced `response`
    litCall,        \* history: the last call, its arguments and what it did
    \* G2PDataset instance (src lines 56-67)
    rdfGraph, associationsLength,
    g2pCall,        \* history: the last call on the graph-backed resolver
    \* G2PDataset.flatten at work (src lines 233-251): its argument, the
    \* dict `a`, the number of rows consumed, and the record an earlier
    \* run over the same argument returned
    flatRows, flatA, flatI, flatPrev

litVars == <<feature, phenotype, response, responseLen, litAssociationsLength,
             cachedFor, litCall>>
g2pVars == <<rdfGraph, associationsLength, g2pCall>>
flatVars == <<flatRows, flatA, flatI, flatPrev>>
vars == <<litVars, g2pVars, flatVars>>

----------------------------------------------------------------------------
(* Bounds *)

\* longest Associations list the external service answers with
MaxAssoc == 2
\* largest pageSize and offset of a call
MaxPage == 2
\* longest argument of flatten
MaxRows == 3

----------------------------------------------------------------------------
(* Python values *)

NoneV == [kind |-> "None", s |-> ""]
Str(x) == [kind |-> "str", s |-> x]
NoInt == <<>>
Int1(n) == <<n>>

Min(a, b) == IF a < b THEN a ELSE b
Max(a, b) == IF a > b THEN a ELSE b

\* seq[a:b] for 0 <= a, with Python's clamping of b to len(seq)
PySlice(seq, a, b) ==
    LET hi == Min(b, Len(seq))
    IN  IF a >= hi THEN <<>> ELSE SubSeq(seq, a + 1, hi)

SeqMap(F(_), seq) == [i \in 1..Len(seq) |-> F(seq[i])]

----------------------------------------------------------------------------
(* LiteromeDataset *)

\* Elements of an upstream response, and the abstracts that go with them.
LitCatalog ==
    << [SnpOrGeneId |-> "BRCA1", SnpOrGeneType |-> "gene",
        DiseaseOrDrugId |-> "D001943", DiseaseOrDrugType |-> "disease",
        DiseaseOrDrugName |-> "breast cancer", Pmid |-> "111"],
       [SnpOrGeneId |-> "rs123", SnpOrGeneType |-> "snp",
        DiseaseOrDrugId |-> "DB00675", DiseaseOrDrugType |-> "drug",
        DiseaseOrDrugName |-> "tamoxifen", Pmid |-> "222"],
       [SnpOrGeneId |-> "TP53", SnpOrGeneType |-> "gene",
        DiseaseOrDrugId |-> "DB00675", DiseaseOrDrugType |-> "drug",
        DiseaseOrDrugName |-> "tamoxifen", Pmid |-> "111"],
       [SnpOrGeneId |-> "rs456", SnpOrGeneType |-> "snp",
        DiseaseOrDrugId |-> "D001943", DiseaseOrDrugType |-> "disease",
        DiseaseOrDrugName |-> "breast cancer", Pmid |-> "333"] >>

LitAbstracts ==
    << [Pmid |-> "111", Title |-> "first title"],
       [Pmid |-> "333", Title |-> "other title"],
       [Pmid |-> "111", Title |-> "second title"] >>

Reverse(seq) == [i \in 1..Len(seq) |-> seq[Len(seq) + 1 - i]]

\* Decoded bodies the service can answer a 200 with: {Associations, Abstracts}
LitBodies ==
    LET lists == {SubSeq(LitCatalog, 1, n) : n \in 0..MaxAssoc}
                 \cup {Reverse(SubSeq(LitCatalog, 1, n)) : n \in 0..MaxAssoc}
    IN  {[Associations |-> l, Abstracts |-> LitAbstracts, hasAbstracts |-> TRUE]
            : l \in lists}

\* {'Associations': []}, lines 357 and 384: a dict without 'Abstracts'
EmptyResponse ==
    [Associations |-> <<>>, Abstracts |-> <<>>, hasAbstracts |-> FALSE]

\* the body of an answer whose status is not 200, had it been decoded
ErrorBody ==
    [Associations |-> SubSeq(LitCatalog, 1, 1), Abstracts |-> LitAbstracts,
     hasAbstracts |-> TRUE]

\* What requests.get(...) and response.json() can do in one call
FetchOutcomes ==
    {[getRaises |-> TRUE, status_code |-> 0, jsonRaises |-> FALSE,
      body |-> EmptyResponse]}
    \cup {[getRaises |-> FALSE, status_code |-> c, jsonRaises |-> FALSE,
           body |-> ErrorBody] : c \in {404, 500}}
    \cup {[getRaises |-> FALSE, status_code |-> 200, jsonRaises |-> TRUE,
           body |-> EmptyResponse]}
    \cup {[getRaises |-> FALSE, status_code |-> 200, jsonRaises |-> FALSE,
           body |-> b] : b \in LitBodies}

NoFetch ==
    [getRaises |-> FALSE, status_code |-> 0, jsonRaises |-> FALSE,
     body |-> EmptyResponse]

\* mapResult, lines 397-453
mapResult(element, abstracts) ==
    LET titles == SelectSeq(abstracts, LAMBDA a : a.Pmid = element.Pmid)
    IN  [id |-> element.SnpOrGeneId \o ":" \o element.DiseaseOrDrugId,
         featureSource |-> IF element.SnpOrGeneType = "gene"
                           THEN "HUGO" ELSE "rsID",
         featureId |-> element.SnpOrGeneId,
         evidenceSource |-> "PMID",
         evidenceId |-> element.Pmid,
         evidenceDescription |-> IF Len(titles) > 0
                                 THEN Str(titles[1].Title) ELSE NoneV,
         phenotypeId |-> element.DiseaseOrDrugId,
         phenotypeSource |-> IF element.DiseaseOrDrugType = "disease"
                             THEN "MeSH" ELSE "DrugBank",
         phenotypeDescription |-> element.DiseaseOrDrugName]

\* line 376: is the call's key different from the cached one
CacheMiss(f, p, selfFeature, selfPhenotype) ==
    f # selfFeature \/ p # selfPhenotype

\* PageEmpty with the first comparison off by one
PageEmptyFromOne(pageSize, offset, respLen) ==
    offset <= 0 \/ offset >= respLen \/ pageSize <= 0

\* line 392: the guard that answers with the empty list
PageEmpty(pageSize, offset, respLen) ==
    offset < 0 \/ offset >= respLen \/ pageSize <= 0

\* line 394: the upper end of the slice
PageEnd(pageSize, offset, respLen) == Min(offset + pageSize, respLen)

\* lines 390-395: paging over the cached response
\* result: [outcome, result]
LitPage(resp, respLen, ps, offset) ==
    LET pageSize == IF ps = NoInt THEN Len(resp.Associations) ELSE ps[1]
        elements == PySlice(resp.Associations, offset,
                            PageEnd(pageSize, offset, respLen))
    IN  IF PageEmpty(pageSize, offset, respLen)
        THEN [outcome |-> "returned", result |-> <<>>]
        ELSE IF ~resp.hasAbstracts
        THEN [outcome |-> "KeyError", result |-> <<>>]
        ELSE [outcome |-> "returned",
              result |-> SeqMap(LAMBDA el : mapResult(el, resp.Abstracts),
                                elements)]

\* StoreFetched taking 404 for the only failure
StoreFetchedNotFound(out) ==
    IF out.status_code = 404
    THEN [response |-> EmptyResponse, responseLen |-> 0]
    ELSE [response |-> out.body, responseLen |-> Len(out.body.Associations)]

\* lines 383-388: what the cache holds after a fetch that answered
\* [response, responseLen]
StoreFetched(out) ==
    IF out.status_code # 200
    THEN [response |-> EmptyResponse, responseLen |-> 0]
    ELSE [response |-> out.body, responseLen |-> Len(out.body.Associations)]

\* LiteromeDataset.queryLabels, lines 368-395, as one step.
\* `op` is "queryLabels" for a direct call and "_search" for a call through
\* LiteromeDataset._search (lines 360-366) whose generator is consumed:
\* line 364 then stores the length of the list queryLabels returned.
\* `out` is what the external service does if it is asked.
LiteromeCall(op, f, e, p, ps, offset, out) ==
    LET call == [op |-> op, feature |-> f, evidence |-> e, phenotype |-> p,
                 pageSize |-> ps, offset |-> offset]
        finish(page, requested, status) ==
            /\ litCall' = [call |-> call, requested |-> requested,
                           status |-> status,
                           outcome |-> page.outcome, result |-> page.result]
            /\ litAssociationsLength' =
                  IF op = "_search" /\ page.outcome = "returned"
                  THEN Int1(Len(page.result))
                  ELSE litAssociationsLength
    IN
    IF f.kind # "str" \/ p.kind # "str"
    THEN \* line 375: "queryLabels " + None raises TypeError
         /\ out = NoFetch
         /\ finish([outcome |-> "TypeError", result |-> <<>>], FALSE, 0)
         /\ UNCHANGED <<feature, phenotype, response, responseLen, cachedFor>>
    ELSE IF ~CacheMiss(f, p, feature, phenotype)
    THEN \* line 376 is false: answered from the cache
         /\ out = NoFetch
         /\ finish(LitPage(response, responseLen, ps, offset), FALSE, 0)
         /\ UNCHANGED <<feature, phenotype, response, responseLen, cachedFor>>
    ELSE \* lines 377-389
         /\ out \in FetchOutcomes
         /\ feature' = f
         /\ phenotype' = p
         /\ IF out.getRaises \/ out.jsonRaises
            THEN \* requests.get (line 379) or response.json() (line 387) raises
                 /\ finish([outcome |-> IF out.getRaises
                                        THEN "RequestException"
                                        ELSE "ValueError",
                            result |-> <<>>], TRUE, out.status_code)
                 /\ UNCHANGED <<response, responseLen, cachedFor>>
            ELSE LET st == StoreFetched(out)
                 IN  /\ response' = st.response
                     /\ responseLen' = st.responseLen
                     /\ cachedFor' = <<f, p>>
                     /\ finish(LitPage(st.response, st.responseLen, ps, offset),
                               TRUE, out.status_code)

\* the call record before any call
LitIdle ==
    [call |-> [op |-> "__init__", feature |-> NoneV, evidence |-> NoneV,
               phenotype |-> NoneV, pageSize |-> NoInt, offset |-> 0],
     requested |-> FALSE, status |-> 0, outcome |-> "returned",
     result |-> <<>>]

----------------------------------------------------------------------------
(* Strings *)

\* pattern occurs in label: regex(?x_label, "pattern") for a pattern without
\* regular-expression metacharacters
Contains(label, pat) ==
    \E i \in 1..(Len(label) - Len(pat) + 1) :
        SubSeq(label, i, i + Len(pat) - 1) = pat

StartsWith(s, pre) == Len(s) >= Len(pre) /\ SubSeq(s, 1, Len(pre)) = pre

\* position of the first / last occurrence of the character c in s, 0 if none
FindChar(s, c) ==
    LET idx == {i \in 1..Len(s) : SubSeq(s, i, i) = c}
    IN  IF idx = {} THEN 0 ELSE CHOOSE i \in idx : \A j \in idx : i <= j
RFindChar(s, c) ==
    LET idx == {i \in 1..Len(s) : SubSeq(s, i, i) = c}
    IN  IF idx = {} THEN 0 ELSE CHOOSE i \in idx : \A j \in idx : i >= j

\* s.replace(old, ''): every non-overlapping occurrence, left to right
RECURSIVE StrRemoveAll(_, _)
StrRemoveAll(s, old) ==
    IF old = "" \/ Len(s) < Len(old) THEN s
    ELSE IF StartsWith(s, old)
    THEN StrRemoveAll(SubSeq(s, Len(old) + 1, Len(s)), old)
    ELSE SubSeq(s, 1, 1) \o StrRemoveAll(SubSeq(s, 2, Len(s)), old)

----------------------------------------------------------------------------
(* G2PDataset.namespaceSplit, lines 333-343 *)

\* urlparse.urlparse on the two shapes of string the resolver hands it:
\* "http://host/path" and a string that does not start with a scheme (the
\* "<...>" strings built on lines 105 and 207), which is all path.  The
\* strings of the model hold no '?', '#' or ';'.
urlparse(url) ==
    IF StartsWith(url, "http://")
    THEN LET rest == SubSeq(url, 8, Len(url))
             slash == FindChar(rest, "/")
         IN  IF slash = 0
             THEN [scheme |-> "http", netloc |-> rest, path |-> ""]
             ELSE [scheme |-> "http", netloc |-> SubSeq(rest, 1, slash - 1),
                   path |-> SubSeq(rest, slash, Len(rest))]
    ELSE [scheme |-> "", netloc |-> "", path |-> url]

\* urlparse.urlunsplit([scheme, netloc, path, '', ''])
urlunsplit(scheme, netloc, path) ==
    LET u1 == IF netloc # ""
              THEN "//" \o netloc \o
                   (IF path # "" /\ ~StartsWith(path, "/") THEN "/" ELSE "")
                   \o path
              ELSE path
    IN  IF scheme # "" THEN scheme \o ":" \o u1 ELSE u1

\* the last path segment, line 338
LastSegment(path) == SubSeq(path, RFindChar(path, "/") + 1, Len(path))

namespaceSplit(url) ==
    LET o == urlparse(url)
        id == LastSegment(o.path)
    IN  [id |-> id,
         ontologySource |-> urlunsplit(o.scheme, o.netloc,
                                       StrRemoveAll(o.path, id))]

----------------------------------------------------------------------------
(* G2PDataset.flatten, lines 225-251 *)

\* A Python dict built by flatten: the 'id' key (absent from the empty dict)
\* and the predicate keys.  A predicate's value is one value-object
\* (isList = FALSE, one item) or a list of value-objects (isList = TRUE).
\* Predicates are URIs, so none of them is the string 'id'.
EmptyDict == [hasId |-> FALSE, id |-> "", p |-> <<>>]

\* lines 235-237: {'val': o} and, when the row has one, 'label'
ValueObject(row) ==
    [val |-> row.o, hasLabel |-> row.hasLabel, label |-> row.label]

\* Promote losing the value a predicate had when its second one arrives
PromoteDropFirst(a, row) ==
    IF row.p \in DOMAIN a.p
    THEN [isList |-> TRUE,
          items |-> IF a.p[row.p].isList
                    THEN Append(a.p[row.p].items, ValueObject(row))
                    ELSE <<ValueObject(row)>>]
    ELSE [isList |-> FALSE, items |-> <<ValueObject(row)>>]

\* lines 239-248: the value of a[row['p']] after the row
Promote(a, row) ==
    IF row.p \in DOMAIN a.p
    THEN [isList |-> TRUE, items |-> Append(a.p[row.p].items, ValueObject(row))]
    ELSE [isList |-> FALSE, items |-> <<ValueObject(row)>>]

\* the body of the loop, lines 235-250
FlattenRow(a, row) ==
    [hasId |-> TRUE, id |-> row.s,
     p |-> (row.p :> Promote(a, row)) @@ a.p]

RECURSIVE FlattenFrom(_, _, _)
FlattenFrom(a, rows, i) ==
    IF i > Len(rows) THEN a
    ELSE FlattenFrom(FlattenRow(a, rows[i]), rows, i + 1)

flatten(rows) == FlattenFrom(EmptyDict, rows, 1)

----------------------------------------------------------------------------
(* The triple store *)

RDF_type == "http://www.w3.org/1999/02/22-rdf-syntax-ns#type"
RDFS_label == "http://www.w3.org/2000/01/rdf-schema#label"
OBAN_association == "http://purl.org/oban/association"
association_has_subject == "http://purl.org/oban/association_has_subject"
hasObject == "http://purl.org/oban/association_has_object"
association_has_object_property ==
    "http://purl.org/oban/association_has_object_property"
RO_has_environment == "http://purl.obolibrary.org/obo/RO_has_environment"
evidenceURI == "http://purl.obolibrary.org/obo/RO_0002558"
source == "http://purl.org/dc/elements/1.1/source"
GENO_0000408 == "http://purl.obolibrary.org/obo/GENO_0000408"
SO_0001059 == "http://purl.obolibrary.org/obo/SO_0001059"
faldo_location == "http://biohackathon.org/resource/faldo#location"

\* Located entities.  typed: the entity is a OBO:SO_0001059; geno: it has a
\* GENO_0000408 triple, whose object carries a label.
LocUntyped == [uri |-> "http://cgd/loc1", label |-> "BRAF V600E",
               typed |-> FALSE, geno |-> FALSE,
               faldo |-> <<"http://cgd/pos1">>]
LocGeno == [uri |-> "http://cgd/loc2", label |-> "KIT D816V",
            typed |-> TRUE, geno |-> TRUE,
            faldo |-> <<"http://cgd/pos2", "http://cgd/pos3">>]
LocTyped == [uri |-> "http://cgd/loc3", label |-> "BRAF V600K",
             typed |-> TRUE, geno |-> FALSE, faldo |-> <<>>]
GenoObject == [uri |-> "http://obo/SO_0001583",
               label |-> "missense_variant"]

Drug1 == [uri |-> "http://cgd/drug1", label |-> "vemurafenib"]
Drug2 == [uri |-> "http://cgd/drug2", label |-> "imatinib"]
Drug3 == [uri |-> "http://cgd/drug3", label |-> "dasatinib"]

Disease1 == [uri |-> "http://cgd/dis1", label |-> "melanoma",
             types |-> <<"http://obo/DOID_1909">>]
Disease2 == [uri |-> "http://cgd/dis2", label |-> "GIST",
             types |-> <<"http://obo/DOID_9253", "http://obo/DOID_162">>]

Evidence1 == [uri |-> "http://obo/ECO_1", label |-> "sensitivity"]

\* Association nodes.  Every node has what the search query requires of a
\* match (lines 40-49): a labelled subject, a labelled environment, a
\* labelled and typed object, an object property; and a RO_0002558 triple.
Node1 == [s |-> "http://cgd/a1", locs |-> <<LocUntyped>>, drugs |-> <<Drug1>>,
          disease |-> Disease1, evidence |-> Evidence1,
          sources |-> <<"http://pm/111", "http://pm/222">>]
Node2 == [s |-> "http://cgd/a2", locs |-> <<LocGeno>>,
          drugs |-> <<Drug2, Drug3>>,
          disease |-> Disease2, evidence |-> Evidence1,
          sources |-> <<"http://pm/333">>]
Node3 == [s |-> "http://cgd/a3", locs |-> <<LocTyped>>, drugs |-> <<Drug1>>,
          disease |-> Disease1, evidence |-> Evidence1, sources |-> <<>>]
G2PCatalog == <<Node1, Node2, Node3>>

\* The stores the resolver is constructed over: the association nodes of a
\* contiguous part of the catalog, in the store's order.
G2PStores ==
    {SubSeq(G2PCatalog, i, j) : i \in 1..Len(G2PCatalog),
                                j \in 0..Len(G2PCatalog)}

RECURSIVE Concat(_)
Concat(seqs) == IF seqs = <<>> THEN <<>> ELSE Head(seqs) \o Concat(Tail(seqs))

FlatMap(F(_), seq) == Concat([i \in 1..Len(seq) |-> F(seq[i])])

\* SELECT distinct: the first occurrence of every row
RECURSIVE Distinct(_)
Distinct(seq) ==
    IF seq = <<>> THEN <<>>
    ELSE LET init == Distinct(SubSeq(seq, 1, Len(seq) - 1))
             last == seq[Len(seq)]
         IN  IF \E i \in 1..Len(init) : init[i] = last
             THEN init ELSE Append(init, last)

----------------------------------------------------------------------------
(* G2PDataset.formatQuery, lines 109-156 *)

\* A facet criterion: None, a string, or a dict {'ids': [{database,
\* identifier}, ...]}
FacetNone == [kind |-> "None", s |-> "", ids |-> <<>>]
Pattern(x) == [kind |-> "str", s |-> x, ids |-> <<>>]
IdList(ids) == [kind |-> "dict", s |-> "", ids |-> ids]

\* lines 119-124: a non-empty string gives regex(?var_label, "string")
RegexFilter(var, facet) ==
    IF facet.kind = "str" /\ facet.s # ""
    THEN <<[var |-> var, op |-> "regex", pattern |-> facet.s, uris |-> <<>>]>>
    ELSE <<>>

\* lines 127-151: a dict gives (?var = <u1> || ?var = <u2> ...)
EqFilter(var, facet) ==
    IF facet.kind = "dict"
    THEN <<[var |-> var, op |-> "eq", pattern |-> "",
            uris |-> SeqMap(LAMBDA id : id.database \o id.identifier,
                            facet.ids)]>>
    ELSE <<>>

\* MissingCriteria with the check left out
NoCriteriaCheck(location, drug, disease) == FALSE

\* line 114: the guard that raises NotImplementedException
MissingCriteria(location, drug, disease) ==
    location.kind = "None" /\ drug.kind = "None" /\ disease.kind = "None"

\* The query that formatQuery composes: its FILTER conjuncts and whether
\* the "?l faldo:location ?location" clause is in it.
formatQuery(location, drug, disease) ==
    [raised |-> MissingCriteria(location, drug, disease),
     filters |-> RegexFilter("location_label", location)
                 \o RegexFilter("drug_label", drug)
                 \o RegexFilter("disease_label", disease)
                 \o EqFilter("location", location)
                 \o EqFilter("drug", drug)
                 \o EqFilter("disease", disease),
     locationClause |-> location.kind = "dict"]

----------------------------------------------------------------------------
(* self._rdfGraph.query on the search query, lines 32-53 and 91-99 *)

\* One solution of the WHERE pattern, projected on the SELECT list of
\* lines 92-93.  ?location is bound only under the faldo:location clause.
Solution(node, l, drug, dtype, loc) ==
    [s |-> node.s, location |-> loc, location_label |-> l.label,
     disease |-> dtype, disease_label |-> node.disease.label,
     drug |-> drug.uri, drug_label |-> drug.label]

\* The solutions one association node contributes: one per binding of
\* ?l, ?drug, ?disease (the rdf:type of ?d) and, under the location clause,
\* ?location.
NodeSolutions(node, locationClause) ==
    FlatMap(LAMBDA l :
      FlatMap(LAMBDA drug :
        FlatMap(LAMBDA dtype :
          IF locationClause
          THEN SeqMap(LAMBDA pos : Solution(node, l, drug, dtype, Str(pos)),
                      l.faldo)
          ELSE <<Solution(node, l, drug, dtype, NoneV)>>,
          node.disease.types),
        node.drugs),
      node.locs)

FilterValue(sol, var) ==
    CASE var = "location_label" -> sol.location_label
      [] var = "drug_label" -> sol.drug_label
      [] var = "disease_label" -> sol.disease_label
      [] var = "location" -> sol.location.s
      [] var = "drug" -> sol.drug
      [] var = "disease" -> sol.disease

FilterHolds(f, sol) ==
    IF f.op = "regex"
    THEN Contains(FilterValue(sol, f.var), f.pattern)
    ELSE \E i \in 1..Len(f.uris) : FilterValue(sol, f.var) = f.uris[i]

\* SPARQL 1.1 grammar: FILTER takes a non-empty expression, and LIMIT and
\* OFFSET an unsigned INTEGER.  "LIMIT {} OFFSET {}".format(pageSize,
\* offset) on line 95 writes None and negative numbers as they are.
QueryParses(q, ps, offset) ==
    /\ q.filters # <<>>
    /\ \A i \in 1..Len(q.filters) :
          q.filters[i].op = "eq" => q.filters[i].uris # <<>>
    /\ ps # NoInt
    /\ ps[1] >= 0
    /\ offset >= 0

\* the rows of "SELECT distinct ?s ?location ... WHERE {...}", before the
\* LIMIT/OFFSET window
SearchRows(store, q) ==
    Distinct(SelectSeq(
        FlatMap(LAMBDA node : NodeSolutions(node, q.locationClause), store),
        LAMBDA sol : \A i \in 1..Len(q.filters) : FilterHolds(q.filters[i], sol)))

\* Window with the OFFSET left out
WindowFromStart(rows, limit, offset) == PySlice(rows, 0, limit)

\* LIMIT limit OFFSET offset
Window(rows, limit, offset) == PySlice(rows, offset, offset + limit)

----------------------------------------------------------------------------
(* G2PDataset.query, lines 158-223 *)

Row(s, p, o) == [s |-> s, p |-> p, o |-> o, hasLabel |-> FALSE, label |-> ""]
LRow(s, p, o, label) ==
    [s |-> s, p |-> p, o |-> o, hasLabel |-> TRUE, label |-> label]

\* "%SUBJECT% ?p ?o . OPTIONAL {?o rdfs:label ?label}" for an association
\* node, with row['s'] = subject (line 191)
AnnotationRows(node, subject) ==
    <<Row(subject, RDF_type, OBAN_association)>>
    \o SeqMap(LAMBDA l : LRow(subject, association_has_subject, l.uri, l.label),
              node.locs)
    \o SeqMap(LAMBDA d : LRow(subject, RO_has_environment, d.uri, d.label),
              node.drugs)
    \o <<LRow(subject, hasObject, node.disease.uri, node.disease.label),
         Row(subject, association_has_object_property, evidenceURI),
         LRow(subject, evidenceURI, node.evidence.uri, node.evidence.label)>>
    \o SeqMap(LAMBDA src : Row(subject, source, src), node.sources)

\* the locationQuery of lines 193-202 for a located entity: no row unless
\* the entity is a OBO:SO_0001059
EntityRows(l, s) ==
    IF ~l.typed THEN <<>>
    ELSE <<Row(s, RDF_type, SO_0001059), Row(s, RDFS_label, l.label)>>
         \o (IF l.geno
             THEN <<LRow(s, GENO_0000408, GenoObject.uri, GenoObject.label)>>
             ELSE <<>>)
         \o SeqMap(LAMBDA pos : Row(s, faldo_location, pos), l.faldo)

\* lines 204-218.  %SUBJECT% is replaced once, so the query run for every
\* association_has_subject row is the one of the first such row, while
\* row['s'] is the location of the row at hand; the rows of the last run stay.
LocationRows(node, rows) ==
    LET links == SelectSeq(rows, LAMBDA r : r.p = association_has_subject)
    IN  IF links = <<>> THEN <<>>
        ELSE LET first == links[1].o
                 last == links[Len(links)].o
                 l == CHOOSE x \in {node.locs[i] : i \in 1..Len(node.locs)} :
                         x.uri = first
             IN  EntityRows(l, "<" \o last \o ">")

\* the annotation dict of lines 220-223
query(store, subject) ==
    LET nodes == SelectSeq(store, LAMBDA n : "<" \o n.s \o ">" = subject)
        rows == IF nodes = <<>> THEN <<>>
                ELSE AnnotationRows(nodes[1], subject)
        locationRows == IF nodes = <<>> THEN <<>>
                        ELSE LocationRows(nodes[1], rows)
        annotation == flatten(rows)
    IN  [hasId |-> annotation.hasId, id |-> annotation.id, p |-> annotation.p,
         location |-> flatten(locationRows)]

----------------------------------------------------------------------------
(* G2PDataset.toGA4GH, lines 253-331 *)

Raised(exc) == [outcome |-> exc, fpa |-> <<>>]

\* lines 268-275: name, id and ontologySource of the feature's type
FeatureType(location) ==
    IF GENO_0000408 \in DOMAIN location.p
    THEN LET v == location.p[GENO_0000408]
         IN  IF v.isList THEN [outcome |-> "TypeError"]
             ELSE IF ~v.items[1].hasLabel THEN [outcome |-> "KeyError"]
             ELSE [outcome |-> "returned",
                   name |-> v.items[1].label,
                   id |-> namespaceSplit(v.items[1].val).id,
                   ontologySource |->
                       namespaceSplit(v.items[1].val).ontologySource]
    ELSE IF ~location.hasId THEN [outcome |-> "KeyError"]   \* location['id']
    ELSE [outcome |-> "returned",
          name |-> location.id,
          id |-> namespaceSplit(location.id).id,
          ontologySource |-> namespaceSplit(location.id).ontologySource]

\* lines 312-326: one Evidence per value of the source predicate
EvidenceList(annotation) ==
    IF source \notin DOMAIN annotation.p THEN <<>>
    ELSE LET ev == annotation.p[evidenceURI]
             name == IF ~ev.isList /\ ev.items[1].hasLabel
                     THEN ev.items[1].label ELSE ""
         IN  SeqMap(LAMBDA src :
                      [id |-> namespaceSplit(src.val).id,
                       ontologySource |-> namespaceSplit(src.val).ontologySource,
                       name |-> name],
                    annotation.p[source].items)

toGA4GH(annotation) ==
    LET ft == FeatureType(annotation.location)
    IN  IF ft.outcome # "returned" THEN Raised(ft.outcome)
        ELSE IF ~annotation.hasId \/ hasObject \notin DOMAIN annotation.p
        THEN Raised("KeyError")
        ELSE IF annotation.p[hasObject].isList THEN Raised("TypeError")
        ELSE IF ~annotation.p[hasObject].items[1].hasLabel
        THEN Raised("KeyError")
        ELSE IF source \in DOMAIN annotation.p
                /\ evidenceURI \notin DOMAIN annotation.p
        THEN Raised("KeyError")
        ELSE LET obj == annotation.p[hasObject].items[1]
             IN  [outcome |-> "returned",
                  fpa |-> [id |-> annotation.id,
                           featureId |-> annotation.id,
                           featureTypeName |-> ft.name,
                           featureTypeId |-> ft.id,
                           featureTypeSource |-> ft.ontologySource,
                           phenotypeName |-> obj.label,
                           phenotypeId |-> namespaceSplit(obj.val).id,
                           phenotypeSource |->
                               namespaceSplit(obj.val).ontologySource,
                           evidence |-> EvidenceList(annotation)]]

----------------------------------------------------------------------------
(* G2PDataset.queryLabels, lines 80-107, and G2PDataset._search, 69-78 *)

\* [outcome, submitted, rows, detailFetches, result]: how the call ended,
\* whether self._rdfGraph.query was called with the search query, the ?s of
\* the rows it gave, the subjects self.query was called with, and the list
\* returned.
queryLabels(store, location, drug, disease, ps, offset) ==
    LET q == formatQuery(location, drug, disease)
        ended(exc, submitted) ==
            [outcome |-> exc, submitted |-> submitted, rows |-> <<>>,
             detailFetches |-> <<>>, result |-> <<>>]
    IN  IF q.raised THEN ended("NotImplementedException", FALSE)
        ELSE IF ~QueryParses(q, ps, offset) THEN ended("ParseException", TRUE)
        ELSE LET rows == Window(SearchRows(store, q), ps[1], offset)
                 subjects == SeqMap(LAMBDA r : r.s, rows)
                 mapped == SeqMap(LAMBDA r :
                                    toGA4GH(query(store, "<" \o r.s \o ">")),
                                  rows)
                 bad == {i \in 1..Len(mapped) : mapped[i].outcome # "returned"}
             IN  IF bad = {}
                 THEN [outcome |-> "returned", submitted |-> TRUE,
                       rows |-> subjects, detailFetches |-> subjects,
                       result |-> SeqMap(LAMBDA m : m.fpa, mapped)]
                 ELSE LET k == CHOOSE i \in bad : \A j \in bad : i <= j
                      IN  [outcome |-> mapped[k].outcome, submitted |-> TRUE,
                           rows |-> subjects,
                           detailFetches |-> SubSeq(subjects, 1, k),
                           result |-> <<>>]

\* G2PDataset._search, lines 69-78, with its generator consumed: the call of
\* queryLabels, and line 76 once it has returned.
G2PSearch(location, drug, disease, ps, offset) ==
    /\ g2pCall' = [op |-> "_search", location |-> location, drug |-> drug,
                   disease |-> disease, pageSize |-> ps, offset |-> offset,
                   answer |-> queryLabels(rdfGraph, location, drug, disease,
                                          ps, offset)]
    /\ associationsLength' =
          IF g2pCall'.answer.outcome = "returned"
          THEN Len(g2pCall'.answer.result) ELSE associationsLength
    /\ UNCHANGED rdfGraph

\* the call record before any call
G2PIdle ==
    [op |-> "__init__", location |-> FacetNone, drug |-> FacetNone,
     disease |-> FacetNone, pageSize |-> NoInt, offset |-> 0,
     answer |-> [outcome |-> "returned", submitted |-> FALSE, rows |-> <<>>,
                 detailFetches |-> <<>>, result |-> <<>>]]

----------------------------------------------------------------------------
(* Specifications *)

PageSizes == {NoInt} \cup {Int1(n) : n \in -1..MaxPage}
Offsets == -1..MaxPage
\* a few windows, for the specifications that vary something else
SomeWindows == {<<NoInt, 0>>, <<Int1(2), 0>>, <<Int1(1), 1>>}

Evidences == {NoneV, Str("ECO_1")}
BRCA1 == Str("BRCA1")
TP53 == Str("TP53")
BreastCancer == Str("breast cancer")
Asthma == Str("asthma")

\* ---- the remote-service resolver called with many keys
CacheKeys ==
    {<<NoneV, Asthma>>, <<BRCA1, NoneV>>,
     <<BRCA1, Asthma>>, <<BRCA1, BreastCancer>>, <<TP53, Asthma>>}

InitCache ==
    /\ feature = NoneV                         \* line 355
    /\ phenotype = NoneV                       \* line 356
    /\ response = EmptyResponse                \* line 357
    /\ responseLen = 0                         \* line 358
    /\ litAssociationsLength = NoInt           \* not set by __init__
    /\ cachedFor = <<NoneV, NoneV>>
    /\ litCall = LitIdle
    /\ rdfGraph = <<>>
    /\ associationsLength = 0
    /\ g2pCall = G2PIdle
    /\ flatRows = <<>>
    /\ flatA = EmptyDict
    /\ flatI = 0
    /\ flatPrev = <<>>

LiteromeCacheCall ==
    \E k \in CacheKeys, e \in Evidences, w \in SomeWindows,
       out \in FetchOutcomes \cup {NoFetch} :
        /\ LiteromeCall("queryLabels", k[1], e, k[2], w[1], w[2], out)
        /\ UNCHANGED <<g2pVars, flatVars>>

SpecCache == InitCache /\ [][LiteromeCacheCall]_vars

\* ---- the remote-service resolver searched with many windows
InitPage ==
    /\ feature = NoneV
    /\ phenotype = NoneV
    /\ response = EmptyResponse
    /\ responseLen = 0
    /\ litAssociationsLength = NoInt
    /\ cachedFor = <<NoneV, NoneV>>
    /\ litCall = LitIdle
    /\ rdfGraph = <<>>
    /\ associationsLength = 0
    /\ g2pCall = G2PIdle
    /\ flatRows = <<>>
    /\ flatA = EmptyDict
    /\ flatI = 0
    /\ flatPrev = <<>>

LiteromePageCall ==
    \E p \in {BreastCancer, Asthma}, ps \in PageSizes, offset \in Offsets,
       out \in FetchOutcomes \cup {NoFetch} :
        /\ LiteromeCall("_search", BRCA1, NoneV, p, ps, offset, out)
        /\ UNCHANGED <<g2pVars, flatVars>>

SpecPage == InitPage /\ [][LiteromePageCall]_vars

\* ---- the graph-backed resolver searched with many criteria
PosId(x) == [database |-> "http://cgd/", identifier |-> x]
TypeId(x) == [database |-> "http://obo/", identifier |-> x]
G2PCriteria ==
    { <<FacetNone, FacetNone, FacetNone>>,
      <<Pattern(""), FacetNone, FacetNone>>,
      <<Pattern("BRAF"), FacetNone, FacetNone>>,
      <<FacetNone, Pattern("inib"), FacetNone>>,
      <<FacetNone, Pattern("nib"), Pattern("melanoma")>>,
      <<IdList(<<PosId("pos2"), PosId("pos3")>>), FacetNone, FacetNone>>,
      <<FacetNone, IdList(<<>>), FacetNone>>,
      <<FacetNone, FacetNone,
        IdList(<<TypeId("DOID_162"), TypeId("DOID_9253")>>)>> }

InitG2P ==
    /\ feature = NoneV
    /\ phenotype = NoneV
    /\ response = EmptyResponse
    /\ responseLen = 0
    /\ litAssociationsLength = NoInt
    /\ cachedFor = <<NoneV, NoneV>>
    /\ litCall = LitIdle
    /\ rdfGraph \in G2PStores                   \* lines 56-64
    /\ associationsLength = 0                   \* line 67
    /\ g2pCall = G2PIdle
    /\ flatRows = <<>>
    /\ flatA = EmptyDict
    /\ flatI = 0
    /\ flatPrev = <<>>

G2PCriteriaCall ==
    \E c \in G2PCriteria, w \in SomeWindows :
        /\ G2PSearch(c[1], c[2], c[3], w[1], w[2])
        /\ UNCHANGED <<litVars, flatVars>>

SpecG2P == InitG2P /\ [][G2PCriteriaCall]_vars

\* ---- the graph-backed resolver searched with many windows
G2PPageCall ==
    \E drug \in {Pattern("inib"), Pattern("nib")},
       ps \in PageSizes, offset \in Offsets :
        /\ G2PSearch(FacetNone, drug, FacetNone, ps, offset)
        /\ UNCHANGED <<litVars, flatVars>>

SpecG2PPage == InitG2P /\ [][G2PPageCall]_vars

\* ---- both resolvers searched
InitCount ==
    /\ feature = NoneV
    /\ phenotype = NoneV
    /\ response = EmptyResponse
    /\ responseLen = 0
    /\ litAssociationsLength = NoInt
    /\ cachedFor = <<NoneV, NoneV>>
    /\ litCall = LitIdle
    /\ rdfGraph \in {SubSeq(G2PCatalog, 2, 3), SubSeq(G2PCatalog, 3, 3)}
    /\ associationsLength = 0
    /\ g2pCall = G2PIdle
    /\ flatRows = <<>>
    /\ flatA = EmptyDict
    /\ flatI = 0
    /\ flatPrev = <<>>

LiteromeCountCall ==
    \E w \in SomeWindows, out \in FetchOutcomes \cup {NoFetch} :
        /\ LiteromeCall("_search", BRCA1, NoneV, Asthma, w[1], w[2], out)
        /\ UNCHANGED <<g2pVars, flatVars>>

G2PCountCall ==
    \E drug \in {Pattern("inib"), Pattern("nib")}, w \in SomeWindows :
        /\ G2PSearch(FacetNone, drug, FacetNone, w[1], w[2])
        /\ UNCHANGED <<litVars, flatVars>>

SpecCount == InitCount /\ [][LiteromeCountCall \/ G2PCountCall]_vars

\* ---- flatten
FlatRowKinds ==
    {Row("<s>", p, o) : p \in {source, hasObject}, o \in {"o1", "o2"}}
    \cup {LRow("<s>", p, o, "label") :
            p \in {source, hasObject}, o \in {"o1", "o2"}}

InitFlatten ==
    /\ feature = NoneV
    /\ phenotype = NoneV
    /\ response = EmptyResponse
    /\ responseLen = 0
    /\ litAssociationsLength = NoInt
    /\ cachedFor = <<NoneV, NoneV>>
    /\ litCall = LitIdle
    /\ rdfGraph = <<>>
    /\ associationsLength = 0
    /\ g2pCall = G2PIdle
    /\ flatRows \in UNION {[1..n -> FlatRowKinds] : n \in 0..MaxRows}
    /\ flatA = EmptyDict                         \* line 233
    /\ flatI = 0
    /\ flatPrev = <<>>

\* one turn of the loop of line 234
FlattenStep ==
    /\ flatI < Len(flatRows)
    /\ flatA' = FlattenRow(flatA, flatRows[flatI + 1])
    /\ flatI' = flatI + 1
    /\ UNCHANGED <<flatRows, flatPrev, litVars, g2pVars>>

\* line 251 returns a; flatten is then called again on the same rows
FlattenAgain ==
    /\ flatI = Len(flatRows)
    /\ flatPrev = <<>>
    /\ flatPrev' = <<flatA>>
    /\ flatA' = EmptyDict
    /\ flatI' = 0
    /\ UNCHANGED <<flatRows, litVars, g2pVars>>

SpecFlatten == InitFlatten /\ [][FlattenStep \/ FlattenAgain]_vars

\* ---- everything at once
Init ==
    /\ feature = NoneV
    /\ phenotype = NoneV
    /\ response = EmptyResponse
    /\ responseLen = 0
    /\ litAssociationsLength = NoInt
    /\ cachedFor = <<NoneV, NoneV>>
    /\ litCall = LitIdle
    /\ rdfGraph \in G2PStores
    /\ associationsLength = 0
    /\ g2pCall = G2PIdle
    /\ flatRows \in UNION {[1..n -> FlatRowKinds] : n \in 0..MaxRows}
    /\ flatA = EmptyDict
    /\ flatI = 0
    /\ flatPrev = <<>>

Next ==
    \/ LiteromeCacheCall
    \/ LiteromePageCall
    \/ G2PCriteriaCall
    \/ G2PPageCall
    \/ FlattenStep
    \/ FlattenAgain

Spec == Init /\ [][Next]_vars

----------------------------------------------------------------------------
(* Properties *)

NoDuplicates(seq) ==
    \A i, j \in 1..Len(seq) : seq[i] = seq[j] => i = j

LitCalled == litCall.call.op # "__init__"
G2PCalled == g2pCall.op # "__init__"

\* C1: in every call of LiteromeDataset.queryLabels, a request is issued to
\* the external service exactly when the call's (feature, phenotype) differs
\* from the cached key; a call with the cached key issues no request and is
\* answered (it returns) from the cached response, which it leaves as it
\* was, whatever its evidence, pageSize and offset.
C1_RequestIffKeyDiffers ==
    [][LET c == litCall'.call
           differs == <<c.feature, c.phenotype>> # <<feature, phenotype>>
       IN  /\ litCall'.requested <=> differs
           /\ ~differs => /\ litCall'.outcome = "returned"
                          /\ response' = response
                          /\ responseLen' = responseLen]_vars

\* the window [offset, min(offset + pageSize, L)) of resp's associations,
\* mapped; pageSize unset is pageSize = L
ExpectedPage(resp, ps, offset) ==
    LET L == Len(resp.Associations)
        n == IF ps = NoInt THEN L ELSE ps[1]
    IN  IF offset < 0 \/ offset >= L \/ n <= 0 THEN <<>>
        ELSE [i \in 1..(Min(offset + n, L) - offset) |->
                mapResult(resp.Associations[offset + i], resp.Abstracts)]

\* C2: a call of LiteromeDataset.queryLabels that gets to its pagination
\* (lines 390-395) returns, and what it returns is: the empty list if
\* offset < 0, offset >= L or pageSize <= 0, and otherwise the mapped
\* elements of the cached associations at [offset, min(offset+pageSize, L))
\* in their cached order, with L the length of the cached response and an
\* unset pageSize standing for L.
C2_Pagination ==
    (LitCalled /\ litCall.outcome \notin
                    {"TypeError", "RequestException", "ValueError"})
    => /\ litCall.outcome = "returned"
       /\ litCall.result =
            ExpectedPage(response, litCall.call.pageSize, litCall.call.offset)

\* a call answered from the cache with the window [1, 2) of two associations
C2_Witness ==
    /\ litCall.outcome = "returned"
    /\ ~litCall.requested
    /\ litCall.call.pageSize = Int1(2)
    /\ litCall.call.offset = 1
    /\ Len(response.Associations) = 2
    /\ Len(litCall.result) = 1
    /\ litCall.result[1].id = "BRCA1:D001943"

\* C3: when the external service answers a fetch with a status other than
\* 200, the search raises nothing, returns the empty list, reports a count
\* of 0, and the cache holds an empty result set of length 0 under the
\* call's (feature, phenotype).
C3_Non200 ==
    (litCall.requested /\ litCall.status \notin {0, 200})
    => /\ litCall.outcome = "returned"
       /\ litCall.result = <<>>
       /\ litAssociationsLength = Int1(0)
       /\ response.Associations = <<>>
       /\ responseLen = 0
       /\ <<feature, phenotype>> = <<litCall.call.feature, litCall.call.phenotype>>

\* a search answered 500, asked for the first two associations
C3_Witness ==
    /\ litCall.call.op = "_search"
    /\ litCall.requested
    /\ litCall.status = 500
    /\ litCall.call.pageSize = Int1(2)
    /\ litCall.call.offset = 0
    /\ litCall.outcome = "returned"

\* C4: a graph-backed search whose location, drug and disease are all None
\* fails with NotImplementedException ("At least one of [location, drug,
\* disease] must be specified"), and no query reaches the triple store.
C4_MissingCriteria ==
    (G2PCalled /\ g2pCall.location.kind = "None" /\ g2pCall.drug.kind = "None"
               /\ g2pCall.disease.kind = "None")
    => /\ g2pCall.answer.outcome = "NotImplementedException"
       /\ ~g2pCall.answer.submitted
       /\ g2pCall.answer.detailFetches = <<>>
       /\ g2pCall.answer.result = <<>>

\* a search without criteria over a store of three associations
C4_Witness ==
    /\ G2PCalled
    /\ g2pCall.location.kind = "None"
    /\ g2pCall.drug.kind = "None"
    /\ g2pCall.disease.kind = "None"
    /\ Len(rdfGraph) = 3
    /\ g2pCall.answer.outcome = "NotImplementedException"

\* the rows of the last graph-backed search's query, before LIMIT/OFFSET
LastSearchRows ==
    SearchRows(rdfGraph,
               formatQuery(g2pCall.location, g2pCall.drug, g2pCall.disease))

\* C5: a graph-backed search (with criteria, and a pageSize) returns the
\* empty list, and raises nothing, whenever pageSize <= 0, offset < 0 or
\* offset >= the number of matches of the query.
C5_EmptyWindow ==
    (G2PCalled /\ g2pCall.pageSize # NoInt
       /\ (\/ g2pCall.pageSize[1] <= 0
           \/ g2pCall.offset < 0
           \/ g2pCall.offset >= Len(LastSearchRows)))
    => /\ g2pCall.answer.outcome = "returned"
       /\ g2pCall.answer.result = <<>>

\* the association node of the store with this subject has a located entity
\* that is no OBO:SO_0001059, so that its detail fetch finds no
\* located-entity row
NoLocatedEntityRows(subject) ==
    \E i \in 1..Len(rdfGraph) :
        /\ rdfGraph[i].s = subject
        /\ \A j \in 1..Len(rdfGraph[i].locs) : ~rdfGraph[i].locs[j].typed

\* C6: when the detail fetch for a matched subject finds no located-entity
\* rows, the search still returns: one association per row of the search,
\* the one of that subject with the location's id for its feature type's
\* name.
C6_NoLocatedEntity ==
    (G2PCalled /\ \E i \in 1..Len(g2pCall.answer.rows) :
                      NoLocatedEntityRows(g2pCall.answer.rows[i]))
    => /\ g2pCall.answer.outcome = "returned"
       /\ Len(g2pCall.answer.result) = Len(g2pCall.answer.rows)
       /\ \A i \in 1..Len(g2pCall.answer.rows) :
             NoLocatedEntityRows(g2pCall.answer.rows[i])
             => g2pCall.answer.result[i].featureTypeName # ""

\* the number of associations of the store that match the last search
LastMatchCount ==
    Cardinality({LastSearchRows[i].s : i \in 1..Len(LastSearchRows)})

WindowSize(total, n, offset) ==
    IF offset < 0 \/ offset >= total \/ n <= 0 THEN 0
    ELSE Min(offset + n, total) - offset

Occurrences(rows, p) ==
    LET occ == SelectSeq(rows, LAMBDA r : r.p = p)
    IN  [i \in 1..Len(occ) |->
            [val |-> occ[i].o, hasLabel |-> occ[i].hasLabel,
             label |-> occ[i].label]]

\* C8: the record flatten returns has no key for a predicate that does not
\* occur, a single value-object (no list) for one that occurs once, and for
\* one that occurs twice or more a list of one value-object per occurrence
\* in first-seen order; flattening the same rows again gives the same
\* record.
C8_Flatten ==
    flatI = Len(flatRows)
    => /\ \A p \in {source, hasObject} :
            LET occ == Occurrences(flatRows, p)
            IN  /\ Len(occ) = 0 => p \notin DOMAIN flatA.p
                /\ Len(occ) = 1 => /\ p \in DOMAIN flatA.p
                                   /\ ~flatA.p[p].isList
                                   /\ flatA.p[p].items = occ
                /\ Len(occ) >= 2 => /\ p \in DOMAIN flatA.p
                                    /\ flatA.p[p].isList
                                    /\ flatA.p[p].items = occ
       /\ flatPrev # <<>> => flatPrev[1] = flatA

\* three rows flattened twice: one predicate once, the other twice with
\* different objects
C8_Witness ==
    /\ flatI = Len(flatRows)
    /\ flatPrev # <<>>
    /\ Len(flatRows) = 3
    /\ Len(Occurrences(flatRows, source)) = 2
    /\ Occurrences(flatRows, source)[1] # Occurrences(flatRows, source)[2]
    /\ Len(Occurrences(flatRows, hasObject)) = 1
    /\ flatRows[2].p = hasObject

\* C9: in a graph-backed search, the rows of the search step have pairwise
\* different subjects, so that no subject's details are fetched twice and
\* no two associations of the returned list have the same id.
C9_DistinctSubjects ==
    G2PCalled
    => /\ NoDuplicates(g2pCall.answer.rows)
       /\ NoDuplicates(g2pCall.answer.detailFetches)
       /\ NoDuplicates(SeqMap(LAMBDA fpa : fpa.id, g2pCall.answer.result))

\* C10: the cached response is the one obtained for the cached (feature,
\* phenotype) (the initial empty one while the key is unset), and
\* responseLen is the number of its Associations; so a call answered from
\* the cache returns the associations fetched for its own pair.
C10_CacheConsistent ==
    /\ cachedFor = <<feature, phenotype>>
    /\ responseLen = Len(response.Associations)
    /\ (LitCalled /\ ~litCall.requested /\ litCall.outcome = "returned")
       => cachedFor = <<litCall.call.feature, litCall.call.phenotype>>

====
